---- MODULE Spec2Model ----
(***************************************************************************)
(* A model of api/snow.js: the /api/snow serverless handler, which fans    *)
(* out one Open-Meteo request per resort with Promise.all, and             *)
(* fetchOpenMeteoSnow, which turns the hourly snowfall series into a       *)
(* 24-hour and a 72-hour total.                                            *)
(*                                                                         *)
(* Numbers.  A snowfall amount is an integer count of thousandths of a     *)
(* centimetre; a returned total is an integer count of tenths of an inch   *)
(* (the one decimal place toFixed(1) keeps).  A value that is not a finite *)
(* number (null, undefined, NaN, an infinity, a string) keeps its tag.     *)
(***************************************************************************)
EXTENDS Integers, Sequences, FiniteSets, TLC

VARIABLES
    hpc,      \* the handler's position: "idle", "awaiting" (at Promise.all), "done"
    req,      \* the request's query parameter `state` (NoState when absent)
    pc,       \* each mapped async callback's position
    status,   \* the HTTP status each callback's fetch resolved with (0: none yet)
    data,     \* the parsed provider body each callback received
    promise,  \* the promise each mapped callback returned
    all,      \* the Promise.all aggregate: state, value slots, remaining count
    res,      \* the HTTP response object
    now,      \* the wall clock read by new Date()
    order,    \* history: the callbacks in the order they settled
    fx        \* one call of fetchOpenMeteoSnow after `await res.json()`: locals and result

vars == <<hpc, req, pc, status, data, promise, all, res, now, order, fx>>

(***************************************************************************)
(* Bounds of the model.                                                    *)
(***************************************************************************)
\* the longest hourly snowfall array the provider returns
MaxLen == 74
\* the largest amount (thousandths of a cm) of the one-entry series
MaxAmount == 2700

(***************************************************************************)
(* Program constants.                                                      *)
(***************************************************************************)
\* hours in the short window: n - 24
Hours24 == 24
\* hours in the long window: n - 72
Hours72 == 72
\* 2.54 cm per inch, in hundredths
CmPerInchX100 == 254

\* The static resort list.  Coordinates are in 1/10000 degree.
RESORTS ==
    << [name |-> "Palisades Tahoe", region |-> "Olympic Valley",
        elevation_ft |-> 6200, lat |-> 391973, lon |-> -1202358,
        report_url |-> "https://www.palisadestahoe.com/mountain-information/snow-and-weather-report",
        webcam_url |-> "https://www.palisadestahoe.com/mountain-information/webcams"],
       [name |-> "Heavenly", region |-> "South Lake Tahoe",
        elevation_ft |-> 10067, lat |-> 389351, lon |-> -1199390,
        report_url |-> "https://www.skiheavenly.com/the-mountain/mountain-conditions/snow-and-weather-report.aspx",
        webcam_url |-> "https://www.skiheavenly.com/the-mountain/mountain-conditions/mountain-cams.aspx"],
       [name |-> "Northstar California", region |-> "Truckee",
        elevation_ft |-> 8610, lat |-> 392746, lon |-> -1201210,
        report_url |-> "https://www.northstarcalifornia.com/the-mountain/mountain-conditions/snow-and-weather-report.aspx",
        webcam_url |-> "https://www.northstarcalifornia.com/the-mountain/mountain-conditions/mountain-cams.aspx"],
       [name |-> "Kirkwood", region |-> "Kirkwood",
        elevation_ft |-> 9800, lat |-> 386846, lon |-> -1200650,
        report_url |-> "https://www.kirkwood.com/the-mountain/mountain-conditions/snow-and-weather-report.aspx",
        webcam_url |-> "https://www.kirkwood.com/the-mountain/mountain-conditions/mountain-cams.aspx"] >>

Idx == 1..Len(RESORTS)

(***************************************************************************)
(* JavaScript values.                                                      *)
(***************************************************************************)
\* a finite number v
Num(v) == [fin |-> TRUE, v |-> v, tag |-> "number"]
\* a value Number.isFinite rejects
NonFinite(tag) == [fin |-> FALSE, v |-> 0, tag |-> tag]
Null == NonFinite("null")
NaN == NonFinite("NaN")

Abs(x) == IF x < 0 THEN -x ELSE x
Min(a, b) == IF a < b THEN a ELSE b
Max(a, b) == IF a > b THEN a ELSE b

\* a + b of the reducer when b was not screened: null counts as 0, anything
\* else that is not finite poisons the accumulator
JsAdd(a, b) ==
    IF a.fin /\ b.fin THEN Num(a.v + b.v)
    ELSE IF a.fin /\ b.tag = "null" THEN a
    ELSE IF ~a.fin THEN a
    ELSE IF b.tag \in {"Infinity", "-Infinity"} THEN b
    ELSE NaN

\* Number.isFinite(b): no coercion, so null, undefined and strings are not finite
NumberIsFinite(b) == b.fin

\* the reducer of sum without its Number.isFinite screen
ReducerUnscreened(a, b) == JsAdd(a, b)

\* (a, b) => a + (Number.isFinite(b) ? b : 0)
Reducer(a, b) == JsAdd(a, IF NumberIsFinite(b) THEN b ELSE Num(0))

RECURSIVE Reduce(_, _, _)
\* arr.reduce(f, acc) from element k on.  reduce computes each accumulator
\* before it goes on to the next element: the test on next.fin makes the
\* evaluation do so too (both branches are the same call)
Reduce(arr, k, acc) ==
    IF k > Len(arr) THEN acc
    ELSE LET next == Reducer(acc, arr[k])
         IN  IF next.fin THEN Reduce(arr, k + 1, next) ELSE Reduce(arr, k + 1, next)

\* sum(arr)
sum(arr) == Reduce(arr, 1, Num(0))

\* Array.prototype.slice(start, end) with 0-based bounds, negative bounds
\* counted from the end and both clamped to the array
Slice(arr, start, end) ==
    LET len == Len(arr)
        from == IF start < 0 THEN Max(len + start, 0) ELSE Min(start, len)
        to == IF end < 0 THEN Max(len + end, 0) ELSE Min(end, len)
    IN  IF to <= from THEN << >> ELSE SubSeq(arr, from + 1, to)

\* field || []
OrEmpty(field) == IF field.present THEN field.arr ELSE << >>

\* an array field of the provider body that is present / absent
Present(arr) == [present |-> TRUE, arr |-> arr]
Absent == [present |-> FALSE, arr |-> << >>]

\* the longer of the two lengths
OverlapLenMax(times, snowfallCm) == Max(Len(times), Len(snowfallCm))

\* Math.min(times.length, snowfallCm.length)
OverlapLen(times, snowfallCm) == Min(Len(times), Len(snowfallCm))

\* snowfallCm.slice(-24): the last 24 entries of the whole array, whatever n
last24Unclamped(snowfallCm, n) == Slice(snowfallCm, 0 - Hours24, Len(snowfallCm))

\* snowfallCm.slice(Math.max(0, n - 24), n)
last24(snowfallCm, n) == Slice(snowfallCm, Max(0, n - Hours24), n)

\* snowfallCm.slice(Math.max(0, n - 72), n)
last72(snowfallCm, n) == Slice(snowfallCm, Max(0, n - Hours72), n)

\* cm / 2.54: inches as the exact quotient num / den (cm.v thousandths of a
\* centimetre are cm.v / 2540 inches)
cmToIn(cm) ==
    IF cm.fin THEN [fin |-> TRUE, num |-> cm.v, den |-> 10 * CmPerInchX100, tag |-> "number"]
    ELSE [fin |-> FALSE, num |-> 0, den |-> 1, tag |-> cm.tag]

\* whether the double `sum` returns is the exact value of the window's
\* total: adding zeros, or one amount to zero, rounds nothing
SumIsExact(arr) == Cardinality({k \in 1..Len(arr) : arr[k].fin /\ arr[k].v # 0}) <= 1

\* the amounts |S| below 3 cm (in thousandths) that are decimal ties,
\* |S| / 2540 = k / 10 + 1 / 20, and whose double quotient
\* RN(RN(|S| / 1000) / RN(2.54)) was evaluated in IEEE-754 arithmetic
DoubleTieKnown == {127 * (2 * m + 1) : m \in 0..11}
\* those of them whose double quotient is below the tie (0.381 / 2.54 is
\* 0.1499999999999999944..., 2.667 / 2.54 is 1.0499999999999998...); the
\* others are above it (0.127 / 2.54) or the tie itself (0.635 / 2.54 = 0.25)
DoubleBelowTie == {381, 889, 2159, 2413, 2667, 2921}

\* a toFixed(1) that drops the digits after the first decimal
toFixed1Truncating(x, exact) ==
    IF ~x.fin THEN {NonFinite(x.tag)}
    ELSE LET sgn == IF x.num < 0 THEN -1 ELSE 1
         IN  {Num(sgn * ((Abs(x.num) * 10) \div x.den))}

(***************************************************************************)
(* Number(x.toFixed(1)), in tenths.  toFixed picks the integer n with      *)
(* n / 10 nearest to the exact value of the double x, the larger n of two  *)
(* equally near (on |x|: the sign is put back afterwards).  The double     *)
(* that `sum` and the division produce differs from the exact quotient by  *)
(* rounding errors far smaller than the distance of any non-tie to a       *)
(* rounding boundary at this resolution, so away from a decimal tie the    *)
(* result is the nearest tenth.  At a decimal tie (10 * x = k + 1/2) the   *)
(* double is the tie itself only when the tie is a binary fraction, and    *)
(* lies otherwise on one side of it: for an exact sum the side is the one  *)
(* IEEE-754 division gives (DoubleBelowTie); for a sum that carries        *)
(* rounding errors of its own, or a tie that was not evaluated, either     *)
(* neighbour is an outcome.                                                *)
(***************************************************************************)
toFixed1(x, exact) ==
    IF ~x.fin THEN {NonFinite(x.tag)}
    ELSE LET sgn == IF x.num < 0 THEN -1 ELSE 1
             a == Abs(x.num) * 10
             lo == a \div x.den
             r == a % x.den
         IN  IF 2 * r < x.den THEN {Num(sgn * lo)}
             ELSE IF 2 * r > x.den THEN {Num(sgn * (lo + 1))}
             ELSE IF exact /\ Abs(x.num) \in DoubleTieKnown
                  THEN IF Abs(x.num) \in DoubleBelowTie
                       THEN {Num(sgn * lo)} ELSE {Num(sgn * (lo + 1))}
                  ELSE {Num(sgn * lo), Num(sgn * (lo + 1))}

\* Number(cmToIn(sum(window)).toFixed(1))
Total(window) == toFixed1(cmToIn(sum(window)), SumIsExact(window))

\* the locals of fetchOpenMeteoSnow once the body is parsed
FetchLocals(d) ==
    LET times == OrEmpty(d.time)
        snowfallCm == OrEmpty(d.snowfall)
        n == OverlapLen(times, snowfallCm)
    IN  [times |-> times, snowfallCm |-> snowfallCm, n |-> n,
         last24 |-> IF n = 0 THEN << >> ELSE last24(snowfallCm, n),
         last72 |-> IF n = 0 THEN << >> ELSE last72(snowfallCm, n)]

\* the values fetchOpenMeteoSnow may return for a parsed body
FetchReturns(d) ==
    LET loc == FetchLocals(d)
    IN  IF loc.n = 0 THEN {[snow24_in |-> Null, snow72_in |-> Null]}
        ELSE {[snow24_in |-> a, snow72_in |-> b] :
                 a \in Total(loc.last24), b \in Total(loc.last72)}

(***************************************************************************)
(* The handler.                                                            *)
(***************************************************************************)
\* req.query.state is absent
NoState == "(absent)"
\* the values of the `state` query parameter
QueryStates == {NoState, "co"}

\* HTTP statuses the provider answers with
Statuses == {200, 429, 500}
\* res.ok
Ok(st) == st >= 200 /\ st <= 299

\* `Open-Meteo error ${res.status}`
StatusMessage(st) == <<"Open-Meteo error ", st>>
\* the message of the TypeError fetch rejects with when the request fails
NetworkMessage == <<"fetch failed">>
\* the message of the SyntaxError res.json() rejects with
ParseMessage == <<"Unexpected end of JSON input">>

\* hour stamps 1..k
Hours(k) == [h \in 1..k |-> h]

\* the provider bodies the handler's callbacks receive
HandlerBodies ==
    { [time |-> Absent, snowfall |-> Absent],
      [time |-> Present(Hours(2)), snowfall |-> Present(<< >>)],
      [time |-> Present(Hours(3)), snowfall |-> Present(<<Num(2540), Null, Num(1270)>>)],
      [time |-> Present(Hours(2)), snowfall |-> Present(<<Num(0), Num(70), Num(5080)>>)] }

NoData == [time |-> Absent, snowfall |-> Absent]

\* the object each mapped callback returns
MakeReport(r, t) ==
    [name |-> r.name, region |-> r.region, elevation_ft |-> r.elevation_ft,
     snow_24h_in |-> t.snow24_in, snow_72h_in |-> t.snow72_in,
     base_depth_in |-> Null, trails_open |-> Null, trails_total |-> Null,
     lifts_open |-> Null, lifts_total |-> Null, terrain_open_pct |-> Null,
     report_url |-> r.report_url, webcam_url |-> r.webcam_url]

\* a slot of Promise.all's values list that no element has filled
EmptySlot == [empty |-> TRUE]

Pending == [state |-> "pending", value |-> EmptySlot, reason |-> << >>]
Fulfilled(v) == [state |-> "fulfilled", value |-> v, reason |-> << >>]
Rejected(e) == [state |-> "rejected", value |-> EmptySlot, reason |-> e]

\* Promise.all(promises) right after the call
NewAll ==
    [state |-> "pending", values |-> [i \in Idx |-> EmptySlot],
     remaining |-> Len(RESORTS), reason |-> << >>]

\* an aggregate that takes results in the order they arrive
ResolveElementPush(a, i, v) ==
    LET k == Len(RESORTS) - a.remaining + 1
        vals == [a.values EXCEPT ![k] = v]
        left == a.remaining - 1
    IN  [a EXCEPT !.values = vals, !.remaining = left,
                  !.state = IF left = 0 /\ a.state = "pending" THEN "fulfilled" ELSE @]

\* an aggregate that fulfils with the first result (Promise.any / race)
ResolveElementFirst(a, i, v) ==
    [a EXCEPT !.values = [a.values EXCEPT ![i] = v], !.remaining = a.remaining - 1,
              !.state = IF a.state = "pending" THEN "fulfilled" ELSE @]

\* Promise.all's resolve element function for index i: fill slot i, and
\* fulfil the aggregate when no element remains (a settled aggregate stays)
ResolveElement(a, i, v) ==
    LET left == a.remaining - 1
    IN  [a EXCEPT !.values = [a.values EXCEPT ![i] = v], !.remaining = left,
                  !.state = IF left = 0 /\ a.state = "pending" THEN "fulfilled" ELSE @]

\* an aggregate that swallows rejections (Promise.allSettled)
RejectElementSwallowed(a, e) ==
    LET left == a.remaining - 1
    IN  [a EXCEPT !.remaining = left,
                  !.state = IF left = 0 /\ a.state = "pending" THEN "fulfilled" ELSE @]

\* Promise.all's reject function: the first rejection settles the aggregate
RejectElement(a, e) ==
    IF a.state = "pending" THEN [a EXCEPT !.state = "rejected", !.reason = e] ELSE a

\* the 200 payload
OkBody(resorts, t) ==
    [updated_at |-> t,
     source |-> "Open-Meteo hourly snowfall (model) via /api/snow",
     resorts |-> resorts]

\* the 500 payload: String(e?.message || e)
ErrorBody(e, t) ==
    [error |-> "Failed to fetch snow data", detail |-> e, updated_at |-> t]

NoBody == [none |-> TRUE]
NewRes == [sent |-> 0, statusCode |-> 0, headers |-> {}, body |-> NoBody]

\* res.status(code).json(body)
Send(r, code, body) == [r EXCEPT !.sent = @ + 1, !.statusCode = code, !.body = body]

\* res.setHeader("Cache-Control", ...)
SetCacheHeader(r) ==
    [r EXCEPT !.headers = @ \cup {<<"Cache-Control", "s-maxage=900, stale-while-revalidate=3600">>}]

\* a handler that resumes on every change of the aggregate
ResumesAlways(before, after) == after.state # "pending" /\ after # before

\* the handler's await resumes once, when the aggregate settles
Resumes(before, after) == before.state = "pending" /\ after.state # "pending"

\* the rest of handler after `await Promise.all(...)`, run in the microtasks
\* that follow the element's settlement: the try branch sends the payload,
\* the catch branch the error
Continue(a, t) ==
    IF Resumes(all, a)
    THEN /\ hpc' = "done"
         /\ res' = IF a.state = "fulfilled"
                   THEN Send(SetCacheHeader(res), 200, OkBody(a.values, t))
                   ELSE Send(res, 500, ErrorBody(a.reason, t))
    ELSE UNCHANGED <<hpc, res>>

\* the mapped callback of resort i throws e
Throw(i, e) ==
    /\ pc' = [pc EXCEPT ![i] = "rejected"]
    /\ promise' = [promise EXCEPT ![i] = Rejected(e)]
    /\ all' = RejectElement(all, e)
    /\ now' = now + 1
    /\ order' = Append(order, i)
    /\ Continue(all', now')

\* the mapped callback of resort i returns v
Return(i, v) ==
    /\ pc' = [pc EXCEPT ![i] = "fulfilled"]
    /\ promise' = [promise EXCEPT ![i] = Fulfilled(v)]
    /\ all' = ResolveElement(all, i, v)
    /\ now' = now + 1
    /\ order' = Append(order, i)
    /\ Continue(all', now')

FxIdle == [pc |-> "idle", data |-> NoData, locals |-> FetchLocals(NoData),
           ret |-> [snow24_in |-> Null, snow72_in |-> Null]]

Init ==
    /\ hpc = "idle"
    /\ req = NoState
    /\ pc = [i \in Idx |-> "init"]
    /\ status = [i \in Idx |-> 0]
    /\ data = [i \in Idx |-> NoData]
    /\ promise = [i \in Idx |-> Pending]
    /\ all = NewAll
    /\ res = NewRes
    /\ now = 0
    /\ order = << >>
    /\ fx = FxIdle

\* handler(req, res) up to `await Promise.all(...)`: RESORTS.map starts every
\* callback, each runs to its `await fetch(...)`
Invoke(q) ==
    /\ hpc = "idle"
    /\ hpc' = "awaiting"
    /\ req' = q
    /\ pc' = [i \in Idx |-> "awaitFetch"]
    /\ all' = NewAll
    /\ UNCHANGED <<status, data, promise, res, now, order, fx>>

\* the provider's response head arrives for resort i
FetchResponds(i, st) ==
    /\ pc[i] = "awaitFetch"
    /\ status' = [status EXCEPT ![i] = st]
    /\ IF Ok(st)
       THEN /\ pc' = [pc EXCEPT ![i] = "awaitJson"]
            /\ now' = now + 1
            /\ UNCHANGED <<hpc, promise, all, res, order>>
       ELSE Throw(i, StatusMessage(st))
    /\ UNCHANGED <<req, data, fx>>

\* the request of resort i fails without a response
FetchFails(i) ==
    /\ pc[i] = "awaitFetch"
    /\ Throw(i, NetworkMessage)
    /\ UNCHANGED <<req, status, data, fx>>

\* res.json() yields the parsed body d; the callback computes and returns
JsonResolves(i, d) ==
    /\ pc[i] = "awaitJson"
    /\ data' = [data EXCEPT ![i] = d]
    /\ \E t \in FetchReturns(d) : Return(i, MakeReport(RESORTS[i], t))
    /\ UNCHANGED <<req, status, fx>>

\* res.json() rejects: the body is not JSON
JsonFails(i) ==
    /\ pc[i] = "awaitJson"
    /\ Throw(i, ParseMessage)
    /\ UNCHANGED <<req, status, data, fx>>

Next ==
    \/ \E q \in QueryStates : Invoke(q)
    \/ \E i \in Idx, st \in Statuses : FetchResponds(i, st)
    \/ \E i \in Idx : FetchFails(i)
    \/ \E i \in Idx, d \in HandlerBodies : JsonResolves(i, d)
    \/ \E i \in Idx : JsonFails(i)

Spec == Init /\ [][Next]_vars

(***************************************************************************)
(* fetchOpenMeteoSnow on its own: one call per behaviour, the parsed body  *)
(* drawn from FetchInputs.                                                 *)
(***************************************************************************)
\* an hour of steady snowfall: 0.254 cm, a hundredth of an inch
BaseEntry == Num(254)

\* the entries that stand out of a steady series
SpikeVals == {Num(0), Num(70), Null, NaN, NonFinite("Infinity"), NonFinite("undefined")}

\* a series of len hours, steady except for v at hour p
Series(len, p, v) == [k \in 1..len |-> IF k = p THEN v ELSE BaseEntry]

\* 26 hours whose last 24 total 10.0 cm and which total 15.0 cm
EndToEndSeries == [k \in 1..26 |-> IF k <= 2 THEN Num(2500) ELSE IF k = 3 THEN Num(10000) ELSE Num(0)]

\* a call of fetchOpenMeteoSnow whose `await res.json()` yielded d
Parsed(d) == [FxIdle EXCEPT !.pc = "parsed", !.data = d]

InitFetch ==
    /\ hpc = "idle"
    /\ req = NoState
    /\ pc = [i \in Idx |-> "init"]
    /\ status = [i \in Idx |-> 0]
    /\ data = [i \in Idx |-> NoData]
    /\ promise = [i \in Idx |-> Pending]
    /\ all = NewAll
    /\ res = NewRes
    /\ now = 0
    /\ order = << >>
    /\ \/ \E len \in 1..MaxLen : \E p \in 1..len, v \in SpikeVals, tl \in {len - 1, len, len + 1} :
             fx = Parsed([time |-> Present(Hours(tl)), snowfall |-> Present(Series(len, p, v))])
       \/ \E v \in 0..MaxAmount :
             fx = Parsed([time |-> Present(<<1>>), snowfall |-> Present(<<Num(v)>>)])
       \/ fx = Parsed([time |-> Present(Hours(26)), snowfall |-> Present(EndToEndSeries)])
       \/ \E d \in HandlerBodies : fx = Parsed(d)

\* fetchOpenMeteoSnow from `const times = ...` to its return
FetchBody ==
    /\ fx.pc = "parsed"
    /\ \E t \in FetchReturns(fx.data) :
          fx' = [fx EXCEPT !.pc = "returned", !.locals = FetchLocals(fx.data), !.ret = t]
    /\ UNCHANGED <<hpc, req, pc, status, data, promise, all, res, now, order>>

NextFetch == FetchBody

SpecFetch == InitFetch /\ [][NextFetch]_vars

(***************************************************************************)
(* Properties of the handler, checked under Spec.                          *)
(***************************************************************************)
Failed(i) == pc[i] = "rejected"
Succeeded(i) == pc[i] = "fulfilled"
Outstanding(i) == pc[i] \in {"awaitFetch", "awaitJson"}

\* the callback that failed first in time
FirstFailed ==
    order[CHOOSE k \in 1..Len(order) :
              /\ Failed(order[k])
              /\ \A j \in 1..(k - 1) : ~Failed(order[j])]

\* C1: once any fetch has failed, whatever the others did or will do, the
\* response is the one 500 error payload {error, detail, updated_at} and
\* holds no `resorts` array.
FailureGivesErrorShape ==
    (\E i \in Idx : Failed(i)) =>
        /\ res.sent = 1
        /\ res.statusCode = 500
        /\ DOMAIN res.body = {"error", "detail", "updated_at"}
        /\ res.body.error = "Failed to fetch snow data"

\* one fetch failed after a fetch had succeeded, the other two succeeded
\* later, and the response is the error
WitnessOneFailureAmongSuccesses ==
    /\ Len(order) = Len(RESORTS)
    /\ Succeeded(order[1]) /\ Failed(order[2]) /\ Succeeded(order[3]) /\ Succeeded(order[4])
    /\ res.statusCode = 500

\* C2: in a successful response the i-th element of `resorts` is the report
\* of the i-th registry record, built from the body that record's own fetch
\* received, whatever the order of completion.
ReportsInRegistryOrder ==
    res.statusCode = 200 =>
        /\ Len(res.body.resorts) = Len(RESORTS)
        /\ \A i \in Idx :
              /\ res.body.resorts[i].name = RESORTS[i].name
              /\ res.body.resorts[i] \in {MakeReport(RESORTS[i], t) : t \in FetchReturns(data[i])}

\* a 200 response whose fetches completed in the reverse of registry order,
\* with different data for the first and the last resort
WitnessReversedCompletion ==
    /\ res.statusCode = 200
    /\ order = <<4, 3, 2, 1>>
    /\ res.body.resorts[1].snow_24h_in # res.body.resorts[4].snow_24h_in

\* C3 as stated: no response at all, 200 or 500, while any fetch is
\* outstanding.
NoResponseWhileAnyOutstanding ==
    res.sent > 0 => \A i \in Idx : ~Outstanding(i)

\* C3 as amended: the 200 payload is sent only after every fetch has
\* completed, and the 500 error only once some fetch has failed; while
\* fetches are outstanding and none has failed, nothing is sent.
ResponseAfterAllOrFirstFailure ==
    /\ res.sent > 0 =>
          \/ res.statusCode = 200 /\ \A i \in Idx : Succeeded(i)
          \/ res.statusCode = 500 /\ \E i \in Idx : Failed(i)
    /\ ((\E i \in Idx : Outstanding(i)) /\ ~(\E i \in Idx : Failed(i))) => res.sent = 0

\* the error was sent while three fetches were still outstanding
WitnessErrorWhileOutstanding ==
    /\ res.sent = 1
    /\ res.statusCode = 500
    /\ Cardinality({i \in Idx : Outstanding(i)}) = 3

\* upper case of a two-letter code
ToUpper(code) ==
    CASE code = "co" -> "CO"
      [] code = "ca" -> "CA"
      [] OTHER -> code

\* the registry records whose `state` equals q case-insensitively
MatchesState(r, q) == "state" \in DOMAIN r /\ ToUpper(r.state) = ToUpper(q)

RECURSIVE SelectFrom(_, _)
\* the indexes from k on of the records that match q, in registry order
SelectFrom(k, q) ==
    IF k > Len(RESORTS) THEN << >>
    ELSE IF MatchesState(RESORTS[k], q) THEN <<k>> \o SelectFrom(k + 1, q)
    ELSE SelectFrom(k + 1, q)

\* C4: with a `state` filter, `resorts` holds exactly the registry records
\* whose state equals the filter case-insensitively, in registry order, and
\* a filter that matches nothing gives a 200 with an empty `resorts`.
FilterSelectsMatchingState ==
    (res.statusCode = 200 /\ req # NoState) =>
        LET sel == SelectFrom(1, req)
        IN  /\ Len(res.body.resorts) = Len(sel)
            /\ \A k \in 1..Len(sel) : res.body.resorts[k].name = RESORTS[sel[k]].name

\* C5: every 200 payload has `filters`: {state: filter_state} when a filter
\* was given, the empty mapping when none was.
PayloadHasFilters ==
    res.statusCode = 200 =>
        /\ "filters" \in DOMAIN res.body
        /\ res.body.filters = (IF req = NoState THEN << >> ELSE [state |-> req])

\* n = min(len(times), len(snowfall)) is 0: an array is empty or absent
NoUsableData(d) ==
    \/ ~d.time.present \/ ~d.snowfall.present
    \/ Len(d.time.arr) = 0 \/ Len(d.snowfall.arr) = 0

\* C7: a callback whose body has n = 0 returns with both totals null, and
\* when every fetch succeeded the response is a 200 that holds that resort
\* with snow_24h_in = snow_72h_in = null.
EmptySeriesGivesNullTotals ==
    \A i \in Idx :
        (pc[i] \in {"fulfilled", "rejected"} /\ status[i] = 200
           /\ promise[i].reason # ParseMessage /\ NoUsableData(data[i])) =>
            /\ promise[i].state = "fulfilled"
            /\ promise[i].value.snow_24h_in = Null
            /\ promise[i].value.snow_72h_in = Null
            /\ (\A j \in Idx : Succeeded(j)) =>
                  /\ res.sent = 1
                  /\ res.statusCode = 200
                  /\ res.body.resorts[i].name = RESORTS[i].name
                  /\ res.body.resorts[i].snow_24h_in = Null
                  /\ res.body.resorts[i].snow_72h_in = Null

\* a 200 response in which one resort's body had a `time` array but an empty
\* `snowfall` array and another's had no arrays at all
WitnessNullTotalsIn200 ==
    /\ res.statusCode = 200
    /\ \E i, j \in Idx :
          /\ data[i].time.present /\ Len(data[i].time.arr) > 0
          /\ data[i].snowfall.present /\ Len(data[i].snowfall.arr) = 0
          /\ ~data[j].time.present
          /\ res.body.resorts[i].snow_24h_in = Null
          /\ res.body.resorts[j].snow_72h_in = Null
          /\ \E k \in Idx : res.body.resorts[k].snow_24h_in # Null

\* C10: when fetches fail, one response is sent; its detail is the message
\* of the fetch that failed first in time (with the provider's status code
\* when that failure was a non-success status); what settles afterwards
\* neither changes the response nor sends another.
FirstFailureDecidesResponse ==
    /\ [](  (\E i \in Idx : Failed(i)) =>
              /\ res.sent = 1
              /\ res.statusCode = 500
              /\ res.body.detail = promise[FirstFailed].reason
              /\ (status[FirstFailed] # 0 /\ ~Ok(status[FirstFailed])) =>
                    /\ Len(res.body.detail) = 2
                    /\ res.body.detail[2] = status[FirstFailed] )
    /\ [][res.sent > 0 => res' = res]_vars

\* a success, then two failures with different messages, then a success:
\* the one response carries the first failure's message
WitnessLaterFailureIgnored ==
    /\ Len(order) = Len(RESORTS)
    /\ Succeeded(order[1]) /\ Failed(order[2]) /\ Failed(order[3]) /\ Succeeded(order[4])
    /\ promise[order[2]].reason = StatusMessage(429)
    /\ promise[order[3]].reason = NetworkMessage
    /\ res.sent = 1
    /\ res.body.detail = StatusMessage(429)

(***************************************************************************)
(* Properties of fetchOpenMeteoSnow, checked under SpecFetch.              *)
(***************************************************************************)
\* the provider's array, empty when the body has none
Given(field) == IF field.present THEN field.arr ELSE << >>
GivenN == Min(Len(Given(fx.data.time)), Len(Given(fx.data.snowfall)))
\* the last min(hours, n) of the first n snowfall entries
Trailing(hours) ==
    LET n == GivenN
        w == Min(hours, n)
        given == Given(fx.data.snowfall)
    IN  [k \in 1..w |-> given[n - w + k]]

RECURSIVE FiniteSumTo(_, _)
\* the sum (thousandths of a cm) of the finite entries among the first k
FiniteSumTo(series, k) ==
    IF k = 0 THEN 0
    ELSE (IF series[k].fin THEN series[k].v ELSE 0) + FiniteSumTo(series, k - 1)

\* the sum (thousandths of a cm) of the finite entries of a series
FiniteSum(series) == FiniteSumTo(series, Len(series))

\* total (a number of tenths of an inch) is an integer nearest to the amount
\* (thousandths of a cm) over 2.54: |amount / 254 - total| <= 1 / 2
NearestTenth(amount, total) ==
    /\ total.fin
    /\ 2 * Abs(amount - 254 * total.v) <= 254

\* the amount is halfway between two tenths of an inch
IsTie(amount) == Abs(amount) % 254 = 127

\* C6: with n > 0, the 24-hour total is summed over exactly the last
\* min(24, n) of the first n snowfall entries and the 72-hour total over
\* the last min(72, n) of them; entries from index n on are left out.
TotalsUseTrailingWindows ==
    (fx.pc = "returned" /\ GivenN > 0) =>
        /\ fx.locals.n = GivenN
        /\ fx.locals.last24 = Trailing(24)
        /\ fx.locals.last72 = Trailing(72)
        /\ NearestTenth(FiniteSum(Trailing(24)), fx.ret.snow24_in)
        /\ NearestTenth(FiniteSum(Trailing(72)), fx.ret.snow72_in)

\* more than 72 usable hours, a snowfall array longer than the time array
\* whose extra entry is not a steady one, and two different totals
WitnessLongSeriesExtraEntry ==
    /\ fx.pc = "returned"
    /\ GivenN > 72
    /\ Len(Given(fx.data.snowfall)) = GivenN + 1
    /\ Given(fx.data.snowfall)[GivenN + 1] = Num(70)
    /\ fx.ret.snow24_in = Num(24)
    /\ fx.ret.snow72_in = Num(72)

IsFinite(entry) == entry.fin

\* C8: with n > 0, entries that are not finite numbers count as 0: both
\* totals are finite numbers and are the totals of the windows with those
\* entries taken out.
NonFiniteEntriesCountZero ==
    (fx.pc = "returned" /\ GivenN > 0) =>
        /\ fx.ret.snow24_in.fin
        /\ fx.ret.snow72_in.fin
        /\ NearestTenth(FiniteSum(SelectSeq(Trailing(24), IsFinite)), fx.ret.snow24_in)
        /\ NearestTenth(FiniteSum(SelectSeq(Trailing(72), IsFinite)), fx.ret.snow72_in)

\* a NaN inside the 24-hour window of a 30-hour series: the totals are the
\* 23 and 29 steady hours that remain
WitnessNaNInWindow ==
    /\ fx.pc = "returned"
    /\ GivenN = 30
    /\ Len(Given(fx.data.snowfall)) = 30
    /\ Given(fx.data.snowfall)[20] = NaN
    /\ fx.ret.snow24_in = Num(23)
    /\ fx.ret.snow72_in = Num(29)

\* C9 as stated: each total is the integer nearest to 10 * S / 2.54, a tie
\* going away from zero.
RoundsHalfAwayFromZero ==
    (fx.pc = "returned" /\ GivenN > 0) =>
        /\ NearestTenth(FiniteSum(Trailing(24)), fx.ret.snow24_in)
        /\ NearestTenth(FiniteSum(Trailing(72)), fx.ret.snow72_in)
        /\ IsTie(FiniteSum(Trailing(24))) =>
              254 * Abs(fx.ret.snow24_in.v) > Abs(FiniteSum(Trailing(24)))
        /\ IsTie(FiniteSum(Trailing(72))) =>
              254 * Abs(fx.ret.snow72_in.v) > Abs(FiniteSum(Trailing(72)))

\* C9 as amended: each total is an integer nearest to 10 * S / 2.54 (10.0 cm
\* gives 3.9, 15.0 cm gives 5.9); when S is halfway between two tenths the
\* total is one of the two neighbours, not always the one away from zero.
RoundsToNearestTenth ==
    (fx.pc = "returned" /\ GivenN > 0) =>
        /\ NearestTenth(FiniteSum(Trailing(24)), fx.ret.snow24_in)
        /\ NearestTenth(FiniteSum(Trailing(72)), fx.ret.snow72_in)
        /\ FiniteSum(Trailing(24)) = 10000 => fx.ret.snow24_in = Num(39)
        /\ FiniteSum(Trailing(72)) = 15000 => fx.ret.snow72_in = Num(59)

\* a single hour of 2.667 cm, exactly 1.05 in: the quotient 2.667 / 2.54 is
\* the double 1.0499999999999998 and the total is 1.0, the neighbour toward
\* zero
WitnessTieTowardZero ==
    /\ fx.pc = "returned"
    /\ Given(fx.data.snowfall) = <<Num(2667)>>
    /\ GivenN = 1
    /\ IsTie(FiniteSum(Trailing(24)))
    /\ fx.ret = [snow24_in |-> Num(10), snow72_in |-> Num(10)]
====
